---- MODULE Spec2Model ----
(***************************************************************************)
(* A model of the playlist/song persistence layer of Jukebox_online:       *)
(*   src/models/song.py       StreamSong (video id, thumbnail derivation)  *)
(*   src/models/playlists.py  Playlist and Playlists (the Collection)      *)
(*   src/migrate_playback_history.py  the play-history migrator            *)
(*                                                                         *)
(* Four specifications share the module:                                   *)
(*   SpecPlaylist  one Playlist object driven through its own methods      *)
(*   Spec          one Playlists collection and its backing file           *)
(*   SpecMigrate   migrate_playback_history run repeatedly on one file     *)
(*   SpecTwo       two Playlists collections over one backing file         *)
(*                                                                         *)
(* Python values are modelled as follows.  A dict is a record whose DOMAIN *)
(* is the set of keys it holds, so d.get(k, default) is Get(d, k, default).*)
(* A value that is not a dict (a str in a songs list, a number where a     *)
(* record is expected) is wrapped: [str |-> s] is the Python string s.     *)
(* None is the string NoneVal.  time.time() is the variable now, which the *)
(* environment may advance between two reads or leave as it is.            *)
(***************************************************************************)
EXTENDS Integers, Sequences, FiniteSets, TLC

(***************************************************************************)
(* Bounds of the model.                                                    *)
(***************************************************************************)
\* the clock stops at MaxTime
MaxTime == 2
\* SpecPlaylist: add_song is offered while the playlist holds fewer than
\* MaxSongs entries, and reorder_songs is given lists of at most MaxSongs
MaxSongs == 3
\* Spec: number of calls made on the collection after its construction
MaxCalls == 2
\* Spec, SpecMigrate: number of I/O errors the environment raises in one
\* behaviour
MaxFaults == 1
\* SpecMigrate: number of events in the history file
MaxEvents == 3
\* SpecMigrate: number of runs of the migrator
MaxRuns == 2

VARIABLES
    now,        \* the value time.time() returns
    pl,         \* SpecPlaylist: the Playlist object
    plCall,     \* SpecPlaylist: the last method call, [name, ...arguments]
    plRet,      \* SpecPlaylist: what the last call returned
    playlists,  \* Spec: Playlists._playlists, a function from ids to Playlists
    order,      \* Spec: Playlists._order
    file,       \* Spec: the content of data_file
    exportFile, \* Spec: the content of the file export_playlist writes
    call,       \* Spec: the last call on the collection, [name, ...arguments]
    ret,        \* Spec: what the last call returned and the saves it made
    calls,      \* Spec: calls made since construction
    faults,     \* I/O errors the environment has raised so far
    history,    \* SpecMigrate: the content of playback_history.json
    backup,     \* SpecMigrate: the content of playback_history.json.backup
    migRet,     \* SpecMigrate: what the last run returned, the writes it made
    runs,       \* SpecMigrate: runs of the migrator so far
    other,      \* SpecTwo: the second collection: its _playlists, _order,
                \* last call and what it returned
    writer      \* SpecTwo: the collection that made the last call, "A" (the
                \* one held in playlists, order, call, ret) or "B" (other)

plVars   == <<pl, plCall, plRet>>
collVars == <<playlists, order, file, exportFile, call, ret, calls>>
migVars  == <<history, backup, migRet, runs>>
twoVars  == <<other, writer>>
vars     == <<now, pl, plCall, plRet,
              playlists, order, file, exportFile, call, ret, calls, faults,
              history, backup, migRet, runs, other, writer>>

(***************************************************************************)
(* Python helpers                                                          *)
(***************************************************************************)
NoneVal == "<None>"

\* dict.get(key, default)
Get(d, k, default) == IF k \in DOMAIN d THEN d[k] ELSE default

\* d[k] = v on a dict
SetKey(d, k, v) == [x \in DOMAIN d \cup {k} |-> IF x = k THEN v ELSE d[x]]

\* isinstance(x, dict): everything that is not a wrapped str
IsDict(x) == "str" \notin DOMAIN x

\* the Python str s as a list element
Str(s) == [str |-> s]

\* truthiness of a str or None as returned by dict.get
Truthy(s) == s # "" /\ s # NoneVal

\* truthiness of a songs entry: a non-empty str or a non-empty dict
EntryTruthy(e) == IF IsDict(e) THEN DOMAIN e # {} ELSE e.str # ""

\* x in lst
InList(x, lst) == \E i \in 1..Len(lst) : lst[i] = x

\* set(lst)
ToSet(lst) == {lst[i] : i \in 1..Len(lst)}

\* lst.pop(index), 0-based: the list without that element
PopAt(lst, index) ==
    [i \in 1..(Len(lst) - 1) |-> IF i <= index THEN lst[i] ELSE lst[i + 1]]

\* lst.insert(index, x), 0-based, for 0 <= index <= len(lst)
InsertAt(lst, index, x) ==
    [i \in 1..(Len(lst) + 1) |->
        IF i <= index THEN lst[i] ELSE IF i = index + 1 THEN x ELSE lst[i - 1]]

\* the 0-based index of the first element equal to x (x is in lst)
FirstIndex(lst, x) == (CHOOSE i \in 1..Len(lst) :
                          lst[i] = x /\ \A j \in 1..(i - 1) : lst[j] # x) - 1

\* lst.remove(x): drops the first element equal to x
RemoveFirst(lst, x) == PopAt(lst, FirstIndex(lst, x))

\* the values time.time() may return at the next read
Clock(t) == {t, t + 1} \cap (1..MaxTime)

(***************************************************************************)
(* song.py: StreamSong                                                     *)
(***************************************************************************)
UrlLocalA == "/music/a.mp3"
UrlLocalB == "/music/b.mp3"
UrlWatch  == "https://www.youtube.com/watch?v=x1"
UrlShort  == "https://youtu.be/x2"
UrlRadio  == "http://radio.example/live"

\* urlparse(url) for the URLs of the model, as the facts _extract_video_id and
\* is_youtube test: hostYoutubeCom is `"youtube.com" in host`, hostYoutuBe is
\* `"youtu.be" in host`, pathWatch is `"watch" in path`, pathShorts and
\* pathEmbed are path.startswith("/shorts/") and ("/embed/"), v is the first v
\* parameter of the query ("" when there is none), segment is the path
\* component the shorts, embed and youtu.be branches cut out, inYoutube is
\* `"youtube" in url.lower()`
UrlParse(url) ==
    CASE url = UrlWatch ->
           [hostYoutubeCom |-> TRUE, hostYoutuBe |-> FALSE, pathWatch |-> TRUE,
            pathShorts |-> FALSE, pathEmbed |-> FALSE, v |-> "x1",
            segment |-> "watch", inYoutube |-> TRUE]
      [] url = UrlShort ->
           [hostYoutubeCom |-> FALSE, hostYoutuBe |-> TRUE, pathWatch |-> FALSE,
            pathShorts |-> FALSE, pathEmbed |-> FALSE, v |-> "",
            segment |-> "x2", inYoutube |-> FALSE]
      [] OTHER ->
           [hostYoutubeCom |-> FALSE, hostYoutuBe |-> FALSE, pathWatch |-> FALSE,
            pathShorts |-> FALSE, pathEmbed |-> FALSE, v |-> "",
            segment |-> "", inYoutube |-> FALSE]

\* StreamSong._extract_video_id
ExtractVideoId(url) ==
    LET p == UrlParse(url) IN
    IF p.hostYoutubeCom /\ p.pathWatch THEN p.v
    ELSE IF p.hostYoutubeCom /\ p.pathShorts THEN p.segment
    ELSE IF p.hostYoutubeCom /\ p.pathEmbed THEN p.segment
    ELSE IF p.hostYoutuBe THEN p.segment
    ELSE ""

\* StreamSong.is_youtube
IsYoutube(url, streamType) == streamType = "youtube" \/ UrlParse(url).inYoutube

\* StreamSong(...).get_thumbnail_url() with the default quality
GetThumbnailUrl(url, streamType) ==
    LET vid == ExtractVideoId(url) IN
    IF IsYoutube(url, streamType) /\ vid # ""
    THEN "https://img.youtube.com/vi/" \o vid \o "/maxresdefault.jpg"
    ELSE ""

(***************************************************************************)
(* playlists.py: Playlist                                                  *)
(***************************************************************************)
\* the condition under which add_song and _hydrate_stream_thumbnails try to
\* derive a thumbnail for a dict entry
NeedsThumbnail(item) ==
    /\ Get(item, "type", NoneVal) \in {"youtube", "stream"}
    /\ ~Truthy(Get(item, "thumbnail_url", NoneVal))

\* one entry after the hydration attempt
HydrateItem(item) ==
    LET WithThumb(thumb) ==
            IF thumb # "" THEN SetKey(item, "thumbnail_url", thumb) ELSE item
    IN  IF IsDict(item) /\ NeedsThumbnail(item)
        THEN WithThumb(GetThumbnailUrl(Get(item, "url", ""), item.type))
        ELSE item

\* Playlist._hydrate_stream_thumbnails at time t: the playlist and `changed`
HydrateStreamThumbnails(p, t) ==
    LET Hydrated(songs2) ==
            [pl |-> [p EXCEPT !.songs = songs2,
                              !.updated_at = IF songs2 # p.songs THEN t ELSE @],
             changed |-> songs2 # p.songs]
    IN  Hydrated([i \in 1..Len(p.songs) |-> HydrateItem(p.songs[i])])

\* Playlist.__init__ at time t; absent arguments are passed as "" / 0 / <<>>,
\* which `or` treats like None
NewPlaylist(playlist_id, name, songs, created_at, updated_at, cpi, t) ==
    HydrateStreamThumbnails(
        [id |-> IF playlist_id # "" /\ playlist_id # NoneVal
                THEN playlist_id ELSE ToString(t * 1000),
         name |-> name,
         songs |-> songs,
         created_at |-> IF created_at # 0 THEN created_at ELSE t,
         updated_at |-> IF updated_at # 0 THEN updated_at ELSE t,
         current_playing_index |-> cpi], t).pl

\* the result of a Playlist method: the playlist after the call, the boolean
\* it returned (ok), the entry it returned (val: <<>> is None) and whether it
\* raised instead of returning
Result(p, ok, val, raised) == [pl |-> p, ok |-> ok, val |-> val, raised |-> raised]

\* Playlist.add_song at time t
\* AddSong as it would be with songs.append in place of songs.insert(0, ..)
AddSong_Appends(p, song, t) ==
    LET AddDict(item) ==
            IF ~ \E i \in 1..Len(p.songs) :
                     /\ IsDict(p.songs[i])
                     /\ Get(p.songs[i], "url", NoneVal) = Get(item, "url", NoneVal)
            THEN Result([p EXCEPT !.songs = Append(@, item),
                                  !.updated_at = t], TRUE, <<>>, FALSE)
            ELSE Result(p, FALSE, <<>>, FALSE)
    IN
    IF IsDict(song)
    THEN AddDict(HydrateItem(song))
    ELSE IF ~InList(song, p.songs)
         THEN Result([p EXCEPT !.songs = Append(@, song),
                               !.updated_at = t], TRUE, <<>>, FALSE)
         ELSE Result(p, FALSE, <<>>, FALSE)

AddSong(p, song, t) ==
    LET AddDict(item) ==
            IF ~ \E i \in 1..Len(p.songs) :
                     /\ IsDict(p.songs[i])
                     /\ Get(p.songs[i], "url", NoneVal) = Get(item, "url", NoneVal)
            THEN Result([p EXCEPT !.songs = InsertAt(@, 0, item),
                                  !.updated_at = t], TRUE, <<>>, FALSE)
            ELSE Result(p, FALSE, <<>>, FALSE)
    IN
    IF IsDict(song)
    THEN AddDict(HydrateItem(song))
    ELSE IF ~InList(song, p.songs)
         THEN Result([p EXCEPT !.songs = InsertAt(@, 0, song),
                               !.updated_at = t], TRUE, <<>>, FALSE)
         ELSE Result(p, FALSE, <<>>, FALSE)

\* Playlist.remove at time t
Remove(p, index, t) ==
    IF 0 <= index /\ index < Len(p.songs)
    THEN Result([p EXCEPT !.songs = PopAt(@, index), !.updated_at = t],
                TRUE, <<>>, FALSE)
    ELSE Result(p, FALSE, <<>>, FALSE)

\* Playlist.reorder at time t; an index of NoneIndex is Python's None
NoneIndex == -100

\* Reorder as it would be if the two entries were exchanged instead of one
\* being popped and inserted
Reorder_Swap(p, from_index, to_index, t) ==
    IF \/ from_index = NoneIndex
       \/ to_index = NoneIndex
       \/ ~(0 <= from_index /\ from_index < Len(p.songs))
       \/ ~(0 <= to_index /\ to_index < Len(p.songs))
    THEN Result(p, FALSE, <<>>, FALSE)
    ELSE Result([p EXCEPT !.songs =
                     [@ EXCEPT ![from_index + 1] = p.songs[to_index + 1],
                               ![to_index + 1] = p.songs[from_index + 1]],
                          !.updated_at = t], TRUE, <<>>, FALSE)

Reorder(p, from_index, to_index, t) ==
    IF \/ from_index = NoneIndex
       \/ to_index = NoneIndex
       \/ ~(0 <= from_index /\ from_index < Len(p.songs))
       \/ ~(0 <= to_index /\ to_index < Len(p.songs))
    THEN Result(p, FALSE, <<>>, FALSE)
    ELSE Result([p EXCEPT !.songs = InsertAt(PopAt(@, from_index), to_index,
                                             p.songs[from_index + 1]),
                          !.updated_at = t], TRUE, <<>>, FALSE)

\* Playlist.remove_song at time t
RemoveSong(p, song_path, t) ==
    IF InList(song_path, p.songs)
    THEN Result([p EXCEPT !.songs = RemoveFirst(@, song_path),
                          !.updated_at = t], TRUE, <<>>, FALSE)
    ELSE Result(p, FALSE, <<>>, FALSE)

\* Playlist.remove_song_at_index at time t
RemoveSongAtIndex(p, index, t) ==
    IF 0 <= index /\ index < Len(p.songs)
    THEN Result([p EXCEPT !.songs = PopAt(@, index), !.updated_at = t],
                TRUE, <<p.songs[index + 1]>>, FALSE)
    ELSE Result(p, FALSE, <<>>, FALSE)

\* set(lst) raises TypeError (unhashable type: 'dict') when lst holds a dict
Unhashable(lst) == \E i \in 1..Len(lst) : IsDict(lst[i])

\* Playlist.reorder_songs at time t
ReorderSongs(p, new_order, t) ==
    IF Unhashable(new_order) \/ Unhashable(p.songs)
    THEN Result(p, FALSE, <<>>, TRUE)
    ELSE IF ToSet(new_order) = ToSet(p.songs)
         THEN Result([p EXCEPT !.songs = new_order, !.updated_at = t],
                     TRUE, <<>>, FALSE)
         ELSE Result(p, FALSE, <<>>, FALSE)

\* Playlist.clear at time t (returns None)
Clear(p, t) ==
    Result([p EXCEPT !.songs = <<>>, !.updated_at = t], TRUE, <<>>, FALSE)

(***************************************************************************)
(* playlists.py: Playlists (the Collection)                                *)
(*                                                                         *)
(* A file is [state |-> "missing"], [state |-> "corrupt"] (text json.load  *)
(* rejects: a truncated or partly written file, or anything else that is   *)
(* not JSON) or [state |-> "json", data |-> v].  json.dump followed by     *)
(* json.load returns the dicts, lists, strings and numbers of the model    *)
(* unchanged, so v is the value dumped.  A top-level JSON array is         *)
(* [list |-> <<...>>]; every other data is a dict.                         *)
(***************************************************************************)
DefaultPlaylistId == "default"

\* Playlist.__init__'s default name
DefaultName == "unnamed"

\* the name load gives the default playlist it creates
DefaultPlaylistName == "default-name"

\* m[k] = v and del m[k] on a dict with arbitrary keys
Put(m, k, v) == [x \in DOMAIN m \cup {k} |-> IF x = k THEN v ELSE m[x]]
Del(m, k)    == [x \in DOMAIN m \ {k} |-> m[x]]

\* Playlist.to_dict
ToDict(p) ==
    [id |-> p.id, name |-> p.name, songs |-> p.songs,
     song_count |-> Len(p.songs), created_at |-> p.created_at,
     updated_at |-> p.updated_at,
     current_playing_index |-> p.current_playing_index]

\* FromDict as it would be if it did not pass the id of the record on: the
\* playlist gets a new id
FromDict_NewId(data, t) ==
    NewPlaylist(NoneVal, Get(data, "name", DefaultName),
                Get(data, "songs", <<>>), Get(data, "created_at", 0),
                Get(data, "updated_at", 0),
                Get(data, "current_playing_index", -1), t)

\* Playlist.from_dict at time t
FromDict(data, t) ==
    NewPlaylist(Get(data, "id", NoneVal), Get(data, "name", DefaultName),
                Get(data, "songs", <<>>), Get(data, "created_at", 0),
                Get(data, "updated_at", 0),
                Get(data, "current_playing_index", -1), t)

\* Playlists.get_all
GetAll(P, O) ==
    LET kept == SelectSeq(O, LAMBDA pid : pid \in DOMAIN P)
    IN  [i \in 1..Len(kept) |-> P[kept[i]]]

\* the dict save() dumps
SaveData(P, O) ==
    LET all == GetAll(P, O)
    IN  [order |-> O, playlists |-> [i \in 1..Len(all) |-> ToDict(all[i])]]

\* what a write of `data` to a file holding f leaves in it.  open(.., "w")
\* truncates the file before json.dump writes to it piece by piece, so an
\* error raised after the open leaves a prefix of the text, which is not JSON.
SaveOutcomes == {"ok", "open_fails", "write_fails"}

\* WriteJson as it would be if the file were opened with "a": what is
\* written follows what the file held, and two JSON texts in a row are not
\* JSON
WriteJson_Appends(f, data, outcome) ==
    CASE outcome = "ok"          -> IF f.state = "missing"
                                    THEN [state |-> "json", data |-> data]
                                    ELSE [state |-> "corrupt"]
      [] outcome = "open_fails"  -> f
      [] outcome = "write_fails" -> [state |-> "corrupt"]

WriteJson(f, data, outcome) ==
    CASE outcome = "ok"          -> [state |-> "json", data |-> data]
      [] outcome = "open_fails"  -> f
      [] outcome = "write_fails" -> [state |-> "corrupt"]

\* Playlists.save: the file after it (the exception is caught and printed)
Save(P, O, f, outcome) == WriteJson(f, SaveData(P, O), outcome)

\* the state of a collection during and after a call: the map, the order, the
\* file and the outcomes of the saves made, in the order they were made
Coll(P, O, f, saves) == [playlists |-> P, order |-> O, file |-> f, saves |-> saves]

\* the result of a call on the collection: the collection after it, whether
\* the value returned is truthy (ok), the object returned (val: <<>> is None
\* or a bare bool) and whether it raised instead of returning
CallResult(c, ok, val, raised) ==
    [coll |-> c, ok |-> ok, val |-> val, raised |-> raised]

\* c after self.save() with the given outcome
WithSave(c, outcome) ==
    Coll(c.playlists, c.order, Save(c.playlists, c.order, c.file, outcome),
         Append(c.saves, outcome))

\* the loop of load over playlists_data from its i-th record on; acc holds the
\* map, the order, hydration_changed and whether from_dict raised
RECURSIVE LoadRecords(_, _, _, _)
LoadRecords(acc, playlists_data, i, t) ==
    IF i > Len(playlists_data) \/ acc.raised THEN acc
    ELSE IF ~IsDict(playlists_data[i]) THEN [acc EXCEPT !.raised = TRUE]
    ELSE LET Loaded(h) ==
                 [playlists |-> Put(acc.playlists, h.pl.id, h.pl),
                  order |-> IF InList(h.pl.id, acc.order) THEN acc.order
                            ELSE Append(acc.order, h.pl.id),
                  changed |-> acc.changed \/ h.changed,
                  raised |-> FALSE]
         IN  LoadRecords(
                 Loaded(HydrateStreamThumbnails(FromDict(playlists_data[i], t), t)),
                 playlists_data, i + 1, t)

\* LoadFile as it would be if the except branch did not reset the
\* collection: what the loop had stored before the exception stays
LoadFile_KeepsPartial(c, t, o1) ==
    IF c.file.state = "missing" THEN Coll(<<>>, <<>>, c.file, c.saves)
    ELSE IF c.file.state = "corrupt"
    THEN Coll(c.playlists, c.order, c.file, c.saves)
    ELSE LET data  == c.file.data
             isObj == "list" \notin DOMAIN data
             order0 == IF isObj THEN Get(data, "order", <<>>) ELSE <<>>
             playlists_data ==
                 IF isObj THEN Get(data, "playlists", <<>>) ELSE data.list
             After(done) ==
                 IF done.raised
                 THEN Coll(done.playlists, done.order, c.file, c.saves)
                 ELSE IF done.changed
                      THEN WithSave(Coll(done.playlists, done.order, c.file,
                                         c.saves), o1)
                      ELSE Coll(done.playlists, done.order, c.file, c.saves)
         IN  After(LoadRecords([playlists |-> c.playlists, order |-> order0,
                                changed |-> FALSE, raised |-> FALSE],
                               playlists_data, 1, t))

\* the part of load that reads the file: the collection after it
LoadFile(c, t, o1) ==
    IF c.file.state = "missing" THEN Coll(<<>>, <<>>, c.file, c.saves)
    ELSE IF c.file.state = "corrupt" THEN Coll(<<>>, <<>>, c.file, c.saves)
    ELSE LET data  == c.file.data
             isObj == "list" \notin DOMAIN data
             order0 == IF isObj THEN Get(data, "order", <<>>) ELSE <<>>
             playlists_data ==
                 IF isObj THEN Get(data, "playlists", <<>>) ELSE data.list
             After(done) ==
                 IF done.raised THEN Coll(<<>>, <<>>, c.file, c.saves)
                 ELSE IF done.changed
                      THEN WithSave(Coll(done.playlists, done.order, c.file,
                                         c.saves), o1)
                      ELSE Coll(done.playlists, done.order, c.file, c.saves)
         IN  After(LoadRecords([playlists |-> c.playlists, order |-> order0,
                                changed |-> FALSE, raised |-> FALSE],
                               playlists_data, 1, t))

\* Playlists.load at time t; o1 and o2 are the outcomes of the save after
\* hydration and of the save after the default playlist is created
Load(c, t, o1, o2) ==
    LET default_pl == NewPlaylist(DefaultPlaylistId, DefaultPlaylistName,
                                  <<>>, 0, 0, -1, t)
        EnsureDefault(read) ==
            IF DefaultPlaylistId \notin DOMAIN read.playlists
            THEN CallResult(
                     WithSave(Coll(Put(read.playlists, DefaultPlaylistId,
                                       default_pl),
                                   IF InList(DefaultPlaylistId, read.order)
                                   THEN read.order
                                   ELSE InsertAt(read.order, 0,
                                                 DefaultPlaylistId),
                                   read.file, read.saves), o2),
                     TRUE, <<>>, FALSE)
            ELSE CallResult(read, TRUE, <<>>, FALSE)
    IN  EnsureDefault(LoadFile(c, t, o1))

\* Playlists.create_playlist at time t
\* a new playlist is put into the map under its id, its id is appended to the
\* order and the collection is saved: the tail of create_playlist and of
\* import_playlist
Register(c, playlist, o) ==
    CallResult(WithSave(Coll(Put(c.playlists, playlist.id, playlist),
                             Append(c.order, playlist.id),
                             c.file, c.saves), o),
               TRUE, <<playlist>>, FALSE)

CreatePlaylist(c, name, t, o) ==
    Register(c, NewPlaylist(NoneVal, name, <<>>, 0, 0, -1, t), o)

\* Playlists.delete_playlist
\* DeletePlaylist as it would be with self._playlists.pop(playlist_id, None)
\* in place of the membership test: it saves and returns True for any id
DeletePlaylist_NoTest(c, playlist_id, o) ==
    CallResult(WithSave(Coll(IF playlist_id \in DOMAIN c.playlists
                             THEN Del(c.playlists, playlist_id)
                             ELSE c.playlists,
                             IF InList(playlist_id, c.order)
                             THEN RemoveFirst(c.order, playlist_id)
                             ELSE c.order,
                             c.file, c.saves), o),
               TRUE, <<>>, FALSE)

DeletePlaylist(c, playlist_id, o) ==
    IF playlist_id \in DOMAIN c.playlists
    THEN CallResult(WithSave(Coll(Del(c.playlists, playlist_id),
                                  IF InList(playlist_id, c.order)
                                  THEN RemoveFirst(c.order, playlist_id)
                                  ELSE c.order,
                                  c.file, c.saves), o),
                    TRUE, <<>>, FALSE)
    ELSE CallResult(c, FALSE, <<>>, FALSE)

\* Playlists.rename_playlist at time t
RenamePlaylist(c, playlist_id, new_name, t, o) ==
    IF playlist_id \in DOMAIN c.playlists
    THEN CallResult(
             WithSave(Coll([c.playlists EXCEPT ![playlist_id].name = new_name,
                                               ![playlist_id].updated_at = t],
                           c.order, c.file, c.saves), o),
             TRUE, <<>>, FALSE)
    ELSE CallResult(c, FALSE, <<>>, FALSE)

\* Playlists.reorder_playlists
ReorderPlaylists(c, new_order, o) ==
    IF ToSet(new_order) = ToSet(c.order)
    THEN CallResult(WithSave(Coll(c.playlists, new_order, c.file, c.saves), o),
                    TRUE, <<>>, FALSE)
    ELSE CallResult(c, FALSE, <<>>, FALSE)

\* a song-level pass-through: r is what the Playlist method returned on the
\* playlist found under playlist_id; the collection saves when the value
\* tested (`truthy`) is true and returns what the method returned
PassThrough(c, playlist_id, r, truthy, o) ==
    LET Saved(c2) ==
            IF r.raised THEN CallResult(c2, FALSE, <<>>, TRUE)
            ELSE CallResult(IF truthy THEN WithSave(c2, o) ELSE c2,
                            truthy, r.val, FALSE)
    IN  Saved(Coll([c.playlists EXCEPT ![playlist_id] = r.pl],
                   c.order, c.file, c.saves))

\* `if result:` for a method that returns a bool
IsTrue(r) == r.ok

\* `if song_path:` for the entry remove_song_at_index returned
IsTruthyEntry(r) == r.val # <<>> /\ EntryTruthy(r.val[1])

\* r, and the value the pass-through tests after the call
Tested(c, playlist_id, r, Test(_), o) == PassThrough(c, playlist_id, r, Test(r), o)

\* Playlists.add_song_to_playlist at time t
AddSongToPlaylist(c, playlist_id, song, t, o) ==
    IF playlist_id \in DOMAIN c.playlists
    THEN Tested(c, playlist_id, AddSong(c.playlists[playlist_id], song, t),
                IsTrue, o)
    ELSE CallResult(c, FALSE, <<>>, FALSE)

\* Playlists.remove_song_from_playlist at time t
RemoveSongFromPlaylist(c, playlist_id, song_path, t, o) ==
    IF playlist_id \in DOMAIN c.playlists
    THEN Tested(c, playlist_id,
                RemoveSong(c.playlists[playlist_id], song_path, t), IsTrue, o)
    ELSE CallResult(c, FALSE, <<>>, FALSE)

\* Playlists.remove_song_at_index at time t: `if song_path:` is the
\* truthiness of the entry removed
CollRemoveSongAtIndex(c, playlist_id, index, t, o) ==
    IF playlist_id \in DOMAIN c.playlists
    THEN Tested(c, playlist_id,
                RemoveSongAtIndex(c.playlists[playlist_id], index, t),
                IsTruthyEntry, o)
    ELSE CallResult(c, FALSE, <<>>, FALSE)

\* Playlists.reorder_playlist_songs at time t
ReorderPlaylistSongs(c, playlist_id, new_order, t, o) ==
    IF playlist_id \in DOMAIN c.playlists
    THEN Tested(c, playlist_id,
                ReorderSongs(c.playlists[playlist_id], new_order, t), IsTrue, o)
    ELSE CallResult(c, FALSE, <<>>, FALSE)

\* Playlists.clear_playlist at time t
ClearPlaylist(c, playlist_id, t, o) ==
    IF playlist_id \in DOMAIN c.playlists
    THEN PassThrough(c, playlist_id, Clear(c.playlists[playlist_id], t), TRUE, o)
    ELSE CallResult(c, FALSE, <<>>, FALSE)

\* Playlists.export_playlist: the export file after it, and what it returns
ExportPlaylist(c, playlist_id, ef, o) ==
    IF playlist_id \in DOMAIN c.playlists
    THEN [exportFile |-> WriteJson(ef, ToDict(c.playlists[playlist_id]), o),
          ok |-> (o = "ok")]
    ELSE [exportFile |-> ef, ok |-> FALSE]

\* Playlists.import_playlist at time t from a file holding `imp`
\* ImportPlaylist as it would be if the imported playlist were given a new
\* id instead of the record's
ImportPlaylist_NewId(c, imp, t, o) ==
    IF imp.state # "json" \/ ~IsDict(imp.data) \/ "list" \in DOMAIN imp.data
    THEN CallResult(c, FALSE, <<>>, FALSE)
    ELSE Register(c, FromDict(SetKey(imp.data, "id", NoneVal), t), o)

ImportPlaylist(c, imp, t, o) ==
    IF imp.state # "json" \/ ~IsDict(imp.data) \/ "list" \in DOMAIN imp.data
    THEN CallResult(c, FALSE, <<>>, FALSE)
    ELSE Register(c, FromDict(imp.data, t), o)

(***************************************************************************)
(* migrate_playback_history.py                                             *)
(***************************************************************************)
\* item.get('ts') or item.get('timestamp', 0)
EventTs(item) ==
    IF Get(item, "ts", 0) # 0 THEN item.ts ELSE Get(item, "timestamp", 0)

\* AggregateItem as it would be if it collected every timestamp, zero
\* included (ts >= 0 for ts > 0)
AggregateItem_CollectsZero(acc, item) ==
    LET Step(url, ts) ==
            IF url = "" THEN acc
            ELSE [keys |-> IF url \in DOMAIN acc.aggregated THEN acc.keys
                           ELSE Append(acc.keys, url),
                  aggregated |->
                      IF \/ url \notin DOMAIN acc.aggregated
                         \/ ts > Get(acc.aggregated[url], "ts", 0)
                      THEN Put(acc.aggregated, url, item)
                      ELSE acc.aggregated,
                  url_timestamps |->
                      Put(acc.url_timestamps, url,
                          Append(Get(acc.url_timestamps, url, <<>>), ts)),
                  raised |-> FALSE]
    IN  Step(Get(item, "url", ""), EventTs(item))

\* one pass of the aggregation loop.  keys is the insertion order of the
\* dict `aggregated`.
AggregateItem(acc, item) ==
    LET Step(url, ts) ==
            IF url = "" THEN acc
            ELSE [keys |-> IF url \in DOMAIN acc.aggregated THEN acc.keys
                           ELSE Append(acc.keys, url),
                  aggregated |->
                      IF \/ url \notin DOMAIN acc.aggregated
                         \/ ts > Get(acc.aggregated[url], "ts", 0)
                      THEN Put(acc.aggregated, url, item)
                      ELSE acc.aggregated,
                  url_timestamps |->
                      IF ts > 0
                      THEN Put(acc.url_timestamps, url,
                               Append(Get(acc.url_timestamps, url, <<>>), ts))
                      ELSE acc.url_timestamps,
                  raised |-> FALSE]
    IN  Step(Get(item, "url", ""), EventTs(item))

\* the aggregation loop over data from its i-th event on; an event that is
\* not a dict has no get() and raises
RECURSIVE Aggregate(_, _, _)
Aggregate(acc, data, i) ==
    IF i > Len(data) \/ acc.raised THEN acc
    ELSE IF ~IsDict(data[i]) THEN [acc EXCEPT !.raised = TRUE]
    ELSE Aggregate(AggregateItem(acc, data[i]), data, i + 1)

\* sorted(set(...))
RECURSIVE SortedSet(_)
SortedSet(S) ==
    IF S = {} THEN <<>>
    ELSE LET Rest(m) == <<m>> \o SortedSet(S \ {m})
         IN  Rest(CHOOSE x \in S : \A y \in S : x <= y)

\* ','.join(str(ts) for ts in timestamps)
RECURSIVE JoinComma(_)
JoinComma(timestamps) ==
    IF Len(timestamps) = 0 THEN ""
    ELSE IF Len(timestamps) = 1 THEN ToString(timestamps[1])
    ELSE ToString(timestamps[1]) \o "," \o JoinComma(Tail(timestamps))

\* the record built for one url from the event kept for it and the sorted
\* distinct timestamps collected for it
MigratedItem(item, timestamps) ==
    LET With(last) ==
            SetKey(SetKey(SetKey(SetKey(item, "ts", last), "timestamp", last),
                          "play_count", Len(timestamps)),
                   "timestamps", JoinComma(timestamps))
    IN  With(IF Len(timestamps) > 0 THEN timestamps[Len(timestamps)] ELSE 0)

\* list.sort(key=ts, reverse=True): descending and stable
RECURSIVE SortByTsDesc(_)
SortByTsDesc(lst) ==
    IF Len(lst) = 0 THEN <<>>
    ELSE LET Place(x, sorted) ==
                 LET before == {k \in 0..Len(sorted) :
                                   \A j \in 1..k : sorted[j].ts >= x.ts}
                     k == CHOOSE k \in before : \A j \in before : j <= k
                 IN  InsertAt(sorted, k, x)
         IN  Place(lst[Len(lst)], SortByTsDesc(SubSeq(lst, 1, Len(lst) - 1)))

\* MigratedData as it would be if the records were built from the urls of
\* url_timestamps instead of those of aggregated: a url whose events carry
\* no positive timestamp gets no record
MigratedData_FromTimestamps(agg) ==
    LET keys == SelectSeq(agg.keys,
                          LAMBDA u : u \in DOMAIN agg.url_timestamps)
    IN  SortByTsDesc([i \in 1..Len(keys) |->
            MigratedItem(agg.aggregated[keys[i]],
                         SortedSet(ToSet(agg.url_timestamps[keys[i]])))])

\* the list migrate_playback_history writes for the list `data`
MigratedData(agg) ==
    SortByTsDesc([i \in 1..Len(agg.keys) |->
        MigratedItem(agg.aggregated[agg.keys[i]],
                     SortedSet(ToSet(Get(agg.url_timestamps, agg.keys[i],
                                         <<>>))))])

\* migrate_playback_history on the files h (main) and b (backup); ob and om
\* are the outcomes of the write of the backup and of the main file.  An
\* exception raised by a write ends the run.
MigrateResult(h, b, ok, writes) ==
    [history |-> h, backup |-> b, ok |-> ok, writes |-> writes]

\* MigratePlaybackHistory as it would be if the backup were written before
\* the events are aggregated
MigratePlaybackHistory_BackupFirst(h, b, ob, om) ==
    IF h.state # "json" THEN MigrateResult(h, b, FALSE, <<>>)
    ELSE IF "list" \notin DOMAIN h.data THEN MigrateResult(h, b, FALSE, <<>>)
    ELSE LET Write(agg) ==
                 IF agg.raised
                 THEN MigrateResult(h, IF b.state = "missing"
                                       THEN WriteJson(b, h.data, "ok") ELSE b,
                                    FALSE, <<>>)
                 ELSE IF b.state = "missing"
                 THEN IF ob # "ok"
                      THEN MigrateResult(h, WriteJson(b, h.data, ob), FALSE,
                                         <<ob>>)
                      ELSE MigrateResult(
                               WriteJson(h, [list |-> MigratedData(agg)], om),
                               WriteJson(b, h.data, ob), om = "ok", <<ob, om>>)
                 ELSE MigrateResult(
                          WriteJson(h, [list |-> MigratedData(agg)], om),
                          b, om = "ok", <<om>>)
         IN  Write(Aggregate([keys |-> <<>>, aggregated |-> <<>>,
                              url_timestamps |-> <<>>, raised |-> FALSE],
                             h.data.list, 1))

MigratePlaybackHistory(h, b, ob, om) ==
    IF h.state # "json" THEN MigrateResult(h, b, FALSE, <<>>)
    ELSE IF "list" \notin DOMAIN h.data THEN MigrateResult(h, b, FALSE, <<>>)
    ELSE LET Write(agg) ==
                 IF agg.raised THEN MigrateResult(h, b, FALSE, <<>>)
                 ELSE IF b.state = "missing"
                 THEN IF ob # "ok"
                      THEN MigrateResult(h, WriteJson(b, h.data, ob), FALSE,
                                         <<ob>>)
                      ELSE MigrateResult(
                               WriteJson(h, [list |-> MigratedData(agg)], om),
                               WriteJson(b, h.data, ob), om = "ok", <<ob, om>>)
                 ELSE MigrateResult(
                          WriteJson(h, [list |-> MigratedData(agg)], om),
                          b, om = "ok", <<om>>)
         IN  Write(Aggregate([keys |-> <<>>, aggregated |-> <<>>,
                              url_timestamps |-> <<>>, raised |-> FALSE],
                             h.data.list, 1))

(***************************************************************************)
(* SpecPlaylist: one Playlist, created empty, and calls of its methods     *)
(***************************************************************************)
\* the songs offered to add_song: legacy path strings and song dicts
SongArgs ==
    { Str(UrlLocalA), Str(UrlLocalB),
      [url |-> UrlLocalA, type |-> "local"],
      [url |-> UrlWatch, type |-> "youtube"],
      [url |-> UrlRadio, type |-> "stream"] }

\* the lists offered to reorder_songs: the lists of path strings, and the
\* lists that hold a song dict
RECURSIVE SeqsUpTo(_, _)
SeqsUpTo(S, n) ==
    IF n = 0 THEN {<<>>}
    ELSE LET shorter == SeqsUpTo(S, n - 1) IN
         shorter \cup {Append(q, x) : q \in shorter, x \in S}

OrderArgs ==
    SeqsUpTo({Str(UrlLocalA), Str(UrlLocalB)}, MaxSongs)
        \cup {<<d>> : d \in {s \in SongArgs : IsDict(s)}}

\* the indices offered to remove, reorder and remove_song_at_index on a list:
\* every valid index, and one on each side of the valid range
IndexArgs(lst) == -1..Len(lst)

NoCall == [name |-> "init"]
NoRet  == [ok |-> TRUE, val |-> <<>>, raised |-> FALSE]

Returned(r) == [ok |-> r.ok, val |-> r.val, raised |-> r.raised]

\* the collection is not part of SpecPlaylist
CollIdle ==
    /\ playlists = <<>>
    /\ order = <<>>
    /\ file = [state |-> "missing"]
    /\ exportFile = [state |-> "missing"]
    /\ call = NoCall
    /\ ret = [ok |-> TRUE, val |-> <<>>, raised |-> FALSE, saves |-> <<>>]
    /\ calls = 0

\* the migrator is not part of SpecPlaylist and Spec
MigIdle ==
    /\ history = [state |-> "missing"]
    /\ backup = [state |-> "missing"]
    /\ migRet = [ok |-> FALSE, writes |-> <<>>]
    /\ runs = 0

\* the second collection is part of SpecTwo alone
TwoIdle ==
    /\ other = [playlists |-> <<>>, order |-> <<>>, call |-> NoCall,
                ret |-> [ok |-> TRUE, val |-> <<>>, raised |-> FALSE,
                         saves |-> <<>>]]
    /\ writer = "A"

InitPlaylist ==
    /\ now = 1
    /\ pl = NewPlaylist(NoneVal, DefaultName, <<>>, 0, 0, -1, 1)
    /\ plCall = NoCall
    /\ plRet = NoRet
    /\ faults = 0
    /\ CollIdle
    /\ MigIdle
    /\ TwoIdle

\* the call `call` of a Playlist method ended as r; t is what time.time()
\* returned to it: only a call that succeeds reads the clock
PlaylistStep(c, r, t) ==
    /\ ~r.ok => t = now
    /\ now' = t
    /\ pl' = r.pl
    /\ plCall' = c
    /\ plRet' = Returned(r)
    /\ UNCHANGED <<collVars, faults, migVars, twoVars>>

PlAddSong ==
    \E song \in SongArgs, t \in Clock(now) :
        /\ Len(pl.songs) < MaxSongs
        /\ PlaylistStep([name |-> "add_song", song |-> song],
                        AddSong(pl, song, t), t)

PlRemove ==
    \E index \in IndexArgs(pl.songs), t \in Clock(now) :
        PlaylistStep([name |-> "remove", index |-> index],
                     Remove(pl, index, t), t)

\* the index pairs offered to reorder on a list: every pair of valid indices,
\* and pairs in which one index is out of range on either side or is None
ReorderPairs(lst) ==
    ((0..(Len(lst) - 1)) \X (0..(Len(lst) - 1)))
        \cup {<<i, 0>> : i \in {-1, Len(lst), NoneIndex}}
        \cup {<<0, i>> : i \in {-1, Len(lst), NoneIndex}}

PlReorder ==
    \E <<from_index, to_index>> \in ReorderPairs(pl.songs),
       t \in Clock(now) :
        PlaylistStep([name |-> "reorder", from_index |-> from_index,
                      to_index |-> to_index],
                     Reorder(pl, from_index, to_index, t), t)

PlRemoveSong ==
    \E song \in SongArgs \cup {HydrateItem(s) : s \in SongArgs},
       t \in Clock(now) :
        PlaylistStep([name |-> "remove_song", song |-> song],
                     RemoveSong(pl, song, t), t)

PlRemoveSongAtIndex ==
    \E index \in IndexArgs(pl.songs), t \in Clock(now) :
        PlaylistStep([name |-> "remove_song_at_index", index |-> index],
                     RemoveSongAtIndex(pl, index, t), t)

PlReorderSongs ==
    \E new_order \in OrderArgs, t \in Clock(now) :
        PlaylistStep([name |-> "reorder_songs", new_order |-> new_order],
                     ReorderSongs(pl, new_order, t), t)

PlClear ==
    \E t \in Clock(now) :
        PlaylistStep([name |-> "clear"], Clear(pl, t), t)

NextPlaylist ==
    \/ PlAddSong
    \/ PlRemove
    \/ PlReorder
    \/ PlRemoveSong
    \/ PlRemoveSongAtIndex
    \/ PlReorderSongs
    \/ PlClear

SpecPlaylist == InitPlaylist /\ [][NextPlaylist]_vars

(***************************************************************************)
(* Spec: one Playlists collection, constructed over a data file the        *)
(* environment provides, and calls of its methods.  Any write may end in   *)
(* an I/O error.                                                           *)
(***************************************************************************)
\* playlist records found in data files: one written before thumbnails were
\* stored, one of another playlist, one that lacks every optional key
RecDefault ==
    [id |-> DefaultPlaylistId, name |-> DefaultPlaylistName,
     songs |-> <<[url |-> UrlWatch, type |-> "youtube"]>>, song_count |-> 1,
     created_at |-> 1, updated_at |-> 1, current_playing_index |-> -1]

RecP1 ==
    [id |-> "p1", name |-> "mix", songs |-> <<Str(UrlLocalA)>>,
     song_count |-> 1, created_at |-> 1, updated_at |-> 1,
     current_playing_index |-> 0]

JsonFile(data) == [state |-> "json", data |-> data]
MissingFile    == [state |-> "missing"]
CorruptFile    == [state |-> "corrupt"]

\* the data files a collection is constructed over
InitFiles ==
    { MissingFile,
      CorruptFile,
      JsonFile([order |-> <<DefaultPlaylistId>>, playlists |-> <<RecDefault>>]),
      JsonFile([order |-> <<"p1">>, playlists |-> <<RecP1>>]),
      JsonFile([order |-> <<"p1">>, playlists |-> <<RecP1, Str("oops")>>]),
      JsonFile([list |-> <<RecP1>>]),
      JsonFile([list |-> <<RecP1, RecDefault>>]) }

\* the files offered to import_playlist, besides the export file
ImportFiles ==
    { MissingFile, JsonFile(RecP1), JsonFile(RecDefault),
      JsonFile([list |-> <<RecP1>>]) }

\* the songs offered to the song-level pass-throughs
CollSongArgs == { Str(""), [url |-> UrlWatch, type |-> "youtube"] }

\* the playlist ids offered to the calls: those the collection knows, and one
\* it does not
IdArgs == DOMAIN playlists \cup ToSet(order) \cup {"nope"}

\* the lists offered to reorder_playlists and reorder_playlist_songs for a
\* current list lst: its permutations, lst with an entry repeated, and lst
\* with a foreign entry
RECURSIVE ListPermutations(_)
ListPermutations(lst) ==
    IF Len(lst) = 0 THEN {<<>>}
    ELSE UNION { {InsertAt(q, k, lst[1]) : k \in 0..Len(q)} :
                 q \in ListPermutations(Tail(lst)) }

ReorderArgs(lst, foreign) ==
    ListPermutations(lst)
        \cup {Append(lst, foreign)}
        \cup (IF Len(lst) = 0 THEN {} ELSE {Append(lst, lst[1])})

\* the collection as a call finds it
Self == Coll(playlists, order, file, <<>>)

\* the number of I/O errors among the outcomes
Faults(outcomes) == Cardinality({i \in 1..Len(outcomes) : outcomes[i] # "ok"})

ReturnedColl(r) ==
    [ok |-> r.ok, val |-> r.val, raised |-> r.raised, saves |-> r.coll.saves]

\* Playlists.__init__: load() on a collection that holds nothing
Init ==
    /\ now = 1
    /\ pl = NewPlaylist(NoneVal, DefaultName, <<>>, 0, 0, -1, 1)
    /\ plCall = NoCall
    /\ plRet = NoRet
    /\ exportFile = MissingFile
    /\ calls = 0
    /\ MigIdle
    /\ TwoIdle
    /\ \E f \in InitFiles, o1, o2 \in SaveOutcomes :
          \E r \in {Load(Coll(<<>>, <<>>, f, <<>>), 1, o1, o2)} :
              /\ call = [name |-> "__init__", data_file |-> f]
              /\ r.coll.saves \in {<<>>, <<o2>>} => o1 = "ok"
              /\ r.coll.saves \in {<<>>, <<o1>>} => o2 = "ok"
              /\ Faults(r.coll.saves) <= MaxFaults
              /\ playlists = r.coll.playlists
              /\ order = r.coll.order
              /\ file = r.coll.file
              /\ ret = ReturnedColl(r)
              /\ faults = Faults(r.coll.saves)

\* the call c ended as R(t), where t is what time.time() returned to it; o is
\* the outcome of its save.  The clock is seen to advance only by a call that
\* changed something, and a call that does not save has no outcome.
CollStep(c, R(_), t, o) ==
    /\ calls < MaxCalls
    /\ o # "ok" => faults < MaxFaults
    /\ \E r \in {R(t)} :
          /\ (/\ r.coll.playlists = playlists
              /\ r.coll.order = order
              /\ r.coll.file = file) => t = now
          /\ Len(r.coll.saves) = 0 => o = "ok"
          /\ faults + Faults(r.coll.saves) <= MaxFaults
          /\ now' = t
          /\ playlists' = r.coll.playlists
          /\ order' = r.coll.order
          /\ file' = r.coll.file
          /\ call' = c
          /\ ret' = ReturnedColl(r)
          /\ calls' = calls + 1
          /\ faults' = faults + Faults(r.coll.saves)
          /\ UNCHANGED <<plVars, exportFile, migVars, twoVars>>

DoLoad ==
    /\ calls < MaxCalls
    /\ \E t \in Clock(now), o1, o2 \in SaveOutcomes :
        /\ \E r \in {Load(Self, t, o1, o2)} :
              /\ r.coll.saves \in {<<>>, <<o2>>} => o1 = "ok"
              /\ r.coll.saves \in {<<>>, <<o1>>} => o2 = "ok"
        /\ CollStep([name |-> "load", data_file |-> file],
                    LAMBDA u : Load(Self, u, o1, o2), t, "ok")

DoCreatePlaylist ==
    /\ calls < MaxCalls
    /\ \E name \in {"new"}, t \in Clock(now), o \in SaveOutcomes :
        CollStep([name |-> "create_playlist", new_name |-> name],
                 LAMBDA u : CreatePlaylist(Self, name, u, o), t, o)

DoDeletePlaylist ==
    /\ calls < MaxCalls
    /\ \E playlist_id \in IdArgs, o \in SaveOutcomes :
        CollStep([name |-> "delete_playlist", playlist_id |-> playlist_id],
                 LAMBDA u : DeletePlaylist(Self, playlist_id, o), now, o)

DoRenamePlaylist ==
    /\ calls < MaxCalls
    /\ \E playlist_id \in IdArgs, new_name \in {"renamed"},
       t \in Clock(now), o \in SaveOutcomes :
        CollStep([name |-> "rename_playlist", playlist_id |-> playlist_id,
                  new_name |-> new_name],
                 LAMBDA u : RenamePlaylist(Self, playlist_id, new_name, u, o),
                 t, o)

DoReorderPlaylists ==
    /\ calls < MaxCalls
    /\ \E new_order \in ReorderArgs(order, "nope"), o \in SaveOutcomes :
        CollStep([name |-> "reorder_playlists", new_order |-> new_order],
                 LAMBDA u : ReorderPlaylists(Self, new_order, o), now, o)

DoAddSongToPlaylist ==
    /\ calls < MaxCalls
    /\ \E playlist_id \in IdArgs, song \in CollSongArgs,
       t \in Clock(now), o \in SaveOutcomes :
        CollStep([name |-> "add_song_to_playlist",
                  playlist_id |-> playlist_id, song |-> song],
                 LAMBDA u : AddSongToPlaylist(Self, playlist_id, song, u, o),
                 t, o)

DoRemoveSongFromPlaylist ==
    /\ calls < MaxCalls
    /\ \E playlist_id \in IdArgs,
       song \in {Str(UrlLocalA), HydrateItem([url |-> UrlWatch, type |-> "youtube"])},
       t \in Clock(now), o \in SaveOutcomes :
        CollStep([name |-> "remove_song_from_playlist",
                  playlist_id |-> playlist_id, song |-> song],
                 LAMBDA u : RemoveSongFromPlaylist(Self, playlist_id, song, u, o),
                 t, o)

\* the songs of the playlist under playlist_id, none if there is no such
SongsOf(playlist_id) ==
    IF playlist_id \in DOMAIN playlists THEN playlists[playlist_id].songs
    ELSE <<>>

DoRemoveSongAtIndex ==
    /\ calls < MaxCalls
    /\ \E playlist_id \in IdArgs, t \in Clock(now), o \in SaveOutcomes :
        \E index \in 0..Len(SongsOf(playlist_id)) :
            CollStep([name |-> "remove_song_at_index",
                      playlist_id |-> playlist_id, index |-> index],
                     LAMBDA u : CollRemoveSongAtIndex(Self, playlist_id, index,
                                                      u, o),
                     t, o)

DoReorderPlaylistSongs ==
    /\ calls < MaxCalls
    /\ \E playlist_id \in IdArgs, t \in Clock(now), o \in SaveOutcomes :
        \E new_order \in ReorderArgs(SongsOf(playlist_id), Str(UrlLocalB)) :
            CollStep([name |-> "reorder_playlist_songs",
                      playlist_id |-> playlist_id, new_order |-> new_order],
                     LAMBDA u : ReorderPlaylistSongs(Self, playlist_id,
                                                     new_order, u, o),
                     t, o)

DoClearPlaylist ==
    /\ calls < MaxCalls
    /\ \E playlist_id \in IdArgs, t \in Clock(now), o \in SaveOutcomes :
        CollStep([name |-> "clear_playlist", playlist_id |-> playlist_id],
                 LAMBDA u : ClearPlaylist(Self, playlist_id, u, o), t, o)

DoImportPlaylist ==
    /\ calls < MaxCalls
    /\ \E imp \in ImportFiles \cup {exportFile},
       t \in Clock(now), o \in SaveOutcomes :
        CollStep([name |-> "import_playlist", import_file |-> imp],
                 LAMBDA u : ImportPlaylist(Self, imp, u, o), t, o)

\* export_playlist writes the export file and nothing else
DoExportPlaylist ==
    /\ calls < MaxCalls
    /\ \E playlist_id \in IdArgs, o \in SaveOutcomes :
        \E e \in {ExportPlaylist(Self, playlist_id, exportFile, o)} :
        /\ playlist_id \notin DOMAIN playlists => o = "ok"
        /\ faults + Faults(<<o>>) <= MaxFaults
        /\ exportFile' = e.exportFile
        /\ call' = [name |-> "export_playlist", playlist_id |-> playlist_id]
        /\ ret' = [ok |-> e.ok, val |-> <<>>, raised |-> FALSE, saves |-> <<>>]
        /\ calls' = calls + 1
        /\ faults' = faults + Faults(<<o>>)
        /\ UNCHANGED <<now, plVars, playlists, order, file, migVars,
                       twoVars>>

Next ==
    \/ DoLoad
    \/ DoCreatePlaylist
    \/ DoDeletePlaylist
    \/ DoRenamePlaylist
    \/ DoReorderPlaylists
    \/ DoAddSongToPlaylist
    \/ DoRemoveSongFromPlaylist
    \/ DoRemoveSongAtIndex
    \/ DoReorderPlaylistSongs
    \/ DoClearPlaylist
    \/ DoImportPlaylist
    \/ DoExportPlaylist

Spec == Init /\ [][Next]_vars

(***************************************************************************)
(* SpecMigrate: migrate_playback_history run again and again on one file.  *)
(* The file is what the player wrote before: a list of play events.        *)
(***************************************************************************)
\* the events found in a history file
EventArgs ==
    { [url |-> "u1", ts |-> 1, title |-> "a"],
      [url |-> "u1", ts |-> 2, title |-> "b"],
      [url |-> "u1", ts |-> 2, title |-> "c"],
      [url |-> "u1", timestamp |-> 3, title |-> "d"],
      [url |-> "u1", title |-> "e"],
      [url |-> "u2", ts |-> 1, title |-> "f"],
      [url |-> "u2", ts |-> 0, timestamp |-> 2, title |-> "g"],
      [url |-> "", ts |-> 1, title |-> "h"],
      [ts |-> 1, title |-> "i"],
      Str("oops") }

\* the history files the migrator is run on
HistoryFiles ==
    { MissingFile, CorruptFile, JsonFile([version |-> Str("1")]) }
        \cup { JsonFile([list |-> data]) : data \in SeqsUpTo(EventArgs, MaxEvents) }

InitMigrate ==
    /\ now = 1
    /\ pl = NewPlaylist(NoneVal, DefaultName, <<>>, 0, 0, -1, 1)
    /\ plCall = NoCall
    /\ plRet = NoRet
    /\ CollIdle
    /\ faults = 0
    /\ history \in HistoryFiles
    /\ backup = MissingFile
    /\ migRet = [ok |-> FALSE, writes |-> <<>>]
    /\ runs = 0
    /\ TwoIdle

DoMigrate ==
    /\ runs < MaxRuns
    /\ \E ob, om \in SaveOutcomes :
        \E r \in {MigratePlaybackHistory(history, backup, ob, om)} :
            /\ r.writes \in {<<>>, <<om>>} => ob = "ok"
            /\ r.writes \in {<<>>, <<ob>>} => om = "ok"
            /\ faults + Faults(r.writes) <= MaxFaults
            /\ history' = r.history
            /\ backup' = r.backup
            /\ migRet' = [ok |-> r.ok, writes |-> r.writes]
            /\ runs' = runs + 1
            /\ faults' = faults + Faults(r.writes)
            /\ UNCHANGED <<now, plVars, collVars, twoVars>>

NextMigrate == DoMigrate

SpecMigrate == InitMigrate /\ [][NextMigrate]_vars

(***************************************************************************)
(* SpecTwo: two Playlists collections, A and B, constructed over the same  *)
(* data file and used in turn without a lock.  Each keeps its own          *)
(* _playlists and _order; a call runs from its start to its return before  *)
(* the next call starts.  No write fails.                                  *)
(***************************************************************************)
Writers == {"A", "B"}

\* the collection of writer w as a call finds it
Mem(w) ==
    IF w = "A" THEN Coll(playlists, order, file, <<>>)
    ELSE Coll(other.playlists, other.order, file, <<>>)

\* the data files the two collections are constructed over
TwoInitFiles ==
    { MissingFile,
      JsonFile([order |-> <<DefaultPlaylistId>>, playlists |-> <<RecDefault>>]),
      JsonFile([order |-> <<"p1">>, playlists |-> <<RecP1>>]) }

\* A is constructed, then B, each by load()
InitTwo ==
    /\ now = 1
    /\ pl = NewPlaylist(NoneVal, DefaultName, <<>>, 0, 0, -1, 1)
    /\ plCall = NoCall
    /\ plRet = NoRet
    /\ exportFile = MissingFile
    /\ calls = 0
    /\ faults = 0
    /\ MigIdle
    /\ writer = "B"
    /\ \E f \in TwoInitFiles :
          \E ra \in {Load(Coll(<<>>, <<>>, f, <<>>), 1, "ok", "ok")} :
          \E rb \in {Load(Coll(<<>>, <<>>, ra.coll.file, <<>>), 1, "ok", "ok")} :
              /\ playlists = ra.coll.playlists
              /\ order = ra.coll.order
              /\ call = [name |-> "__init__", data_file |-> f]
              /\ ret = ReturnedColl(ra)
              /\ other = [playlists |-> rb.coll.playlists,
                          order |-> rb.coll.order,
                          call |-> [name |-> "__init__",
                                    data_file |-> ra.coll.file],
                          ret |-> ReturnedColl(rb)]
              /\ file = rb.coll.file

\* the call c of writer w ended as r; t is what time.time() returned to it
TwoStep(w, c, r, t) ==
    /\ (/\ r.coll.playlists = Mem(w).playlists
        /\ r.coll.order = Mem(w).order
        /\ r.coll.file = file) => t = now
    /\ now' = t
    /\ file' = r.coll.file
    /\ writer' = w
    /\ calls' = calls + 1
    /\ IF w = "A"
       THEN /\ playlists' = r.coll.playlists
            /\ order' = r.coll.order
            /\ call' = c
            /\ ret' = ReturnedColl(r)
            /\ other' = other
       ELSE /\ other' = [playlists |-> r.coll.playlists,
                         order |-> r.coll.order,
                         call |-> c,
                         ret |-> ReturnedColl(r)]
            /\ UNCHANGED <<playlists, order, call, ret>>
    /\ UNCHANGED <<plVars, exportFile, faults, migVars>>

TwoLoad ==
    /\ calls < MaxCalls
    /\ \E w \in Writers, t \in Clock(now) :
        \E r \in {Load(Mem(w), t, "ok", "ok")} :
            TwoStep(w, [name |-> "load", data_file |-> file], r, t)

TwoCreatePlaylist ==
    /\ calls < MaxCalls
    /\ \E w \in Writers, t \in Clock(now) :
        \E r \in {CreatePlaylist(Mem(w), "new", t, "ok")} :
            TwoStep(w, [name |-> "create_playlist", new_name |-> "new"], r, t)

TwoRenamePlaylist ==
    /\ calls < MaxCalls
    /\ \E w \in Writers, t \in Clock(now) :
        \E playlist_id \in DOMAIN Mem(w).playlists \cup {"nope"} :
        \E r \in {RenamePlaylist(Mem(w), playlist_id, "renamed", t, "ok")} :
            TwoStep(w, [name |-> "rename_playlist",
                        playlist_id |-> playlist_id, new_name |-> "renamed"],
                    r, t)

TwoDeletePlaylist ==
    /\ calls < MaxCalls
    /\ \E w \in Writers :
        \E playlist_id \in DOMAIN Mem(w).playlists \cup {"nope"} :
        \E r \in {DeletePlaylist(Mem(w), playlist_id, "ok")} :
            TwoStep(w, [name |-> "delete_playlist",
                        playlist_id |-> playlist_id], r, now)

TwoAddSongToPlaylist ==
    /\ calls < MaxCalls
    /\ \E w \in Writers, t \in Clock(now), song \in {Str(UrlLocalB)} :
        \E playlist_id \in DOMAIN Mem(w).playlists \cup {"nope"} :
        \E r \in {AddSongToPlaylist(Mem(w), playlist_id, song, t, "ok")} :
            TwoStep(w, [name |-> "add_song_to_playlist",
                        playlist_id |-> playlist_id, song |-> song], r, t)

NextTwo ==
    \/ TwoLoad
    \/ TwoCreatePlaylist
    \/ TwoRenamePlaylist
    \/ TwoDeletePlaylist
    \/ TwoAddSongToPlaylist

SpecTwo == InitTwo /\ [][NextTwo]_vars

(***************************************************************************)
(* Properties of a Playlist (checked under SpecPlaylist)                   *)
(***************************************************************************)
\* the url of a songs entry: a dict's url, a legacy path string itself
EntryUrl(e) == IF IsDict(e) THEN Get(e, "url", NoneVal) ELSE e.str

\* how often x occurs in lst
Count(x, lst) == Cardinality({i \in 1..Len(lst) : lst[i] = x})

\* lst1 is a permutation of lst2: the same entries with the same multiplicities
IsPermutation(lst1, lst2) ==
    \A x \in ToSet(lst1) \cup ToSet(lst2) : Count(x, lst1) = Count(x, lst2)

\* C1: in every state reachable from an empty Playlist, no two entries of
\* songs have the same url (a legacy path string counts as its own url).
\* Violated: reorder_songs accepts a list that repeats an entry, and add_song
\* compares a dict only with dicts and a string only with equal strings.
C1_UniqueUrls ==
    \A i, j \in 1..Len(pl.songs) :
        i # j => EntryUrl(pl.songs[i]) # EntryUrl(pl.songs[j])

\* C2: add_song of a song whose url is the url of an entry already in songs
\* returns false and leaves songs unchanged.
\* Violated: a dict whose url is a path already present as a legacy string
\* (and the reverse) is inserted.
C2_DuplicateUrlRejected ==
    [][(/\ plCall'.name = "add_song"
        /\ \E i \in 1..Len(pl.songs) :
               EntryUrl(pl.songs[i]) = EntryUrl(plCall'.song))
       => (/\ ~plRet'.ok
           /\ ~plRet'.raised
           /\ pl'.songs = pl.songs)]_vars

\* C3: reorder_songs(new_order) returns true only if new_order is a
\* permutation of songs (same entries, same multiplicities); for any other
\* new_order it returns false and leaves songs and updated_at unchanged.
\* Violated: the check is set(new_order) == set(songs), which a list that
\* repeats an entry passes.  Stated for lists of path strings, on which the
\* check returns; what it does on lists that hold dicts is C29's.
C3_ReorderSongsOnlyPermutation ==
    [][(/\ plCall'.name = "reorder_songs"
        /\ ~Unhashable(plCall'.new_order)
        /\ ~Unhashable(pl.songs)
        /\ ~IsPermutation(plCall'.new_order, pl.songs))
       => (/\ ~plRet'.ok
           /\ ~plRet'.raised
           /\ pl'.songs = pl.songs
           /\ pl'.updated_at = pl.updated_at)]_vars

(***************************************************************************)
(* Properties of the collection (checked under Spec)                       *)
(***************************************************************************)
\* the last call made at least one save and every save it made failed
SaveFailed(r) ==
    /\ Len(r.saves) > 0
    /\ \A i \in 1..Len(r.saves) : r.saves[i] # "ok"

\* the last call was a load: the constructor's or an explicit one
AfterLoad == call.name \in {"__init__", "load"}

\* the calls of the collection that change it
MutatingCalls ==
    { "create_playlist", "delete_playlist", "rename_playlist",
      "reorder_playlists", "add_song_to_playlist",
      "remove_song_from_playlist", "remove_song_at_index",
      "reorder_playlist_songs", "clear_playlist", "import_playlist" }

\* the file f holds the order O and every playlist of the map P
FileHolds(f, P, O) ==
    /\ f.state = "json"
    /\ "list" \notin DOMAIN f.data
    /\ f.data.order = O
    /\ \A k \in DOMAIN P :
           \E i \in 1..Len(f.data.playlists) :
               f.data.playlists[i] = ToDict(P[k])

\* the playlist records of a data file, none if it cannot be parsed
RecordsOf(f) ==
    IF f.state # "json" THEN <<>>
    ELSE IF "list" \in DOMAIN f.data THEN f.data.list
    ELSE Get(f.data, "playlists", <<>>)

\* the songs of a playlist record, none if the record is malformed
SongsOfRecord(rec) == IF IsDict(rec) THEN Get(rec, "songs", <<>>) ELSE <<>>

\* the file holds a stream entry without the thumbnail hydration derives
LacksThumbnail(f) ==
    \E i \in 1..Len(RecordsOf(f)) :
        \E j \in 1..Len(SongsOfRecord(RecordsOf(f)[i])) :
            HydrateItem(SongsOfRecord(RecordsOf(f)[i])[j])
                # SongsOfRecord(RecordsOf(f)[i])[j]

\* every record of the file is a dict
WellFormed(f) ==
    \A i \in 1..Len(RecordsOf(f)) : IsDict(RecordsOf(f)[i])

\* C4: reorder_playlists(new_order) returns true only if new_order is a
\* permutation of order; for any other new_order, one that repeats an id
\* included, it returns false, leaves order unchanged and does not save.
\* Violated: the check is set(new_order) == set(order).
C4_ReorderPlaylistsOnlyPermutation ==
    [][(/\ call'.name = "reorder_playlists"
        /\ calls' = calls + 1
        /\ ~IsPermutation(call'.new_order, order))
       => (/\ ~ret'.ok
           /\ order' = order
           /\ ret'.saves = <<>>)]_vars

\* C5: a save that fails after it has started leaves the file holding the
\* valid serialized collection it held before.
\* Violated: save opens the data file itself for writing, which empties it,
\* and an error raised while json.dump writes leaves it partly written.
C5_FailedSaveKeepsFile ==
    [][(/\ calls' = calls + 1
        /\ SaveFailed(ret')
        /\ file.state = "json")
       => file' = file]_vars

\* C7: after every load, "default" is a key of the playlists map and an
\* element of order.
\* Violated: load replaces order by the file's but keeps the playlists it
\* already holds, so a "default" held in memory and absent from the file
\* stays in the map and is not put into order.
C7_DefaultAfterLoad ==
    AfterLoad =>
        /\ DefaultPlaylistId \in DOMAIN playlists
        /\ InList(DefaultPlaylistId, order)

\* C8: after every load, a load on a collection that already holds playlists
\* included, every key of the playlists map is an element of order.
\* Violated: as C7, for any playlist held in memory and absent from the file.
C8_KeysInOrderAfterLoad ==
    AfterLoad => \A k \in DOMAIN playlists : InList(k, order)

\* C9: after a mutating call reported success and its save did not fail, the
\* file holds the order and every playlist the collection holds in memory.
\* Violated: save writes get_all(), the playlists listed in order, so a
\* playlist that C8's defect left out of order is dropped from the file.
C9_WriteThrough ==
    (/\ call.name \in MutatingCalls
     /\ ret.ok
     /\ ret.saves = <<"ok">>)
    => FileHolds(file, playlists, order)

\* C10: a load that reads a file in which a stream entry lacks a thumbnail
\* hydration can derive makes exactly one save, after which the file holds
\* the thumbnail.
\* Violated: from_dict runs Playlist.__init__, which hydrates, so the second
\* hydration load runs reports no change and load does not save.
C10_LoadSavesHydration ==
    [][(/\ call'.name = "load"
        /\ calls' = calls + 1
        /\ WellFormed(file)
        /\ LacksThumbnail(file))
       => (/\ Len(ret'.saves) = 1
           /\ ret'.saves[1] = "ok" => ~LacksThumbnail(file'))]_vars

(***************************************************************************)
(* Properties of the migrator (checked under SpecMigrate)                  *)
(***************************************************************************)
\* the records of a migrated file
MigratedRecords(f) == ToSet(f.data.list)

\* the fields of a migrated record the migration derives, with its url
Derived(rec) ==
    [url |-> rec.url, ts |-> rec.ts, play_count |-> rec.play_count,
     timestamps |-> rec.timestamps]

\* C6: a second run on the file a first run produced rewrites the main file
\* with the same play_count, timestamps and ts for every url, and does not
\* write the backup again.
\* Violated: the second run reads one event per url, the record the first
\* run wrote, so a url played at several times gets play_count 1 and its
\* last timestamp alone.
C6_MigrationIdempotent ==
    [][(/\ runs' = runs + 1
        /\ runs >= 1
        /\ migRet.ok
        /\ migRet'.ok)
       => (/\ {Derived(rec) : rec \in MigratedRecords(history')}
                = {Derived(rec) : rec \in MigratedRecords(history)}
           /\ backup' = backup)]_vars

\* the positive timestamps of the events of data that carry the url
StampsOf(data, url) ==
    {EventTs(data[i]) : i \in {j \in 1..Len(data) :
                                 /\ IsDict(data[j])
                                 /\ Get(data[j], "url", "") = url
                                 /\ EventTs(data[j]) > 0}}

\* the members of a set of numbers in ascending order
Ascending(S) ==
    CHOOSE q \in [1..Cardinality(S) -> S] :
        \A i, j \in 1..Cardinality(S) : i < j => q[i] < q[j]

\* the largest member of a set of numbers, 0 for the empty set
MaxOrZero(S) ==
    IF S = {} THEN 0 ELSE CHOOSE x \in S : \A y \in S : y <= x

\* C11: after a run that succeeds, the record of every url has timestamps
\* equal to the ascending, duplicate-free, comma-joined list of the positive
\* timestamps of the input events with that url, play_count equal to their
\* number, and ts and timestamp equal to their maximum (0 if there are none).
C11_DerivedFields ==
    [][(/\ runs' = runs + 1
        /\ migRet'.ok)
       => \A rec \in MigratedRecords(history') :
              /\ rec.timestamps
                     = JoinComma(Ascending(StampsOf(history.data.list, rec.url)))
              /\ rec.play_count
                     = Cardinality(StampsOf(history.data.list, rec.url))
              /\ rec.ts = MaxOrZero(StampsOf(history.data.list, rec.url))
              /\ rec.timestamp = rec.ts]_vars

\* a first run has succeeded on three events of one url, two of them with
\* the same timestamp and the earlier one last, and wrote "1,2"
C11_Witness ==
    /\ runs = 1
    /\ migRet.ok
    /\ Len(backup.data.list) = 3
    /\ EventTs(backup.data.list[3]) < EventTs(backup.data.list[1])
    /\ \E rec \in MigratedRecords(history) :
           /\ \A i \in 1..3 : Get(backup.data.list[i], "url", "") = rec.url
           /\ rec.timestamps = "1,2"
           /\ rec.play_count = 2

\* the keys the migration derives
DerivedKeys == {"ts", "timestamp", "play_count", "timestamps"}

\* an event or record without the derived keys
NonDerived(item) == [k \in DOMAIN item \ DerivedKeys |-> item[k]]

\* the indices of the events of data that carry the url
EventsOf(data, url) ==
    {i \in 1..Len(data) : IsDict(data[i]) /\ Get(data[i], "url", "") = url}

\* C12: after a run that succeeds, the non-derived fields of the record of
\* every url are those of an input event with that url whose timestamp (ts,
\* or the legacy timestamp when there is no ts) is the highest of that url.
\* Violated: the loop compares the timestamp of an event with the `ts` key of
\* the event kept so far; an event kept with the legacy key alone counts as
\* 0 there, so any later event with a positive ts replaces it.
C12_LatestEventKept ==
    [][(/\ runs' = runs + 1
        /\ migRet'.ok)
       => \A rec \in MigratedRecords(history') :
              \E i \in EventsOf(history.data.list, rec.url) :
                  /\ \A j \in EventsOf(history.data.list, rec.url) :
                         EventTs(history.data.list[j])
                             <= EventTs(history.data.list[i])
                  /\ NonDerived(history.data.list[i]) = NonDerived(rec)]_vars

\* C13: over any number of runs the backup is written at most once, before
\* the main file is first overwritten, with the data the main file held
\* before the first migration, and no later run changes it.  As steps: a
\* backup that exists is left as it is; a backup that comes to exist holds
\* what the main file held; and the main file changes only when a backup
\* exists.
\* Violated: the backup is written in place, so a write that fails after the
\* open leaves a partial backup, and since only its existence is tested the
\* next run overwrites the main file without writing the backup again.
C13_BackupOnce ==
    [][/\ backup.state # "missing" => backup' = backup
       /\ (backup.state = "missing" /\ backup'.state # "missing")
              => backup' = JsonFile(history.data)
       /\ history' # history => backup'.state # "missing"]_vars

\* the run cannot read, parse or aggregate what the file f holds
InputFails(f) ==
    \/ f.state # "json"
    \/ "list" \notin DOMAIN f.data
    \/ \E i \in 1..Len(f.data.list) : ~IsDict(f.data.list[i])

\* C14: a run that fails while it reads, parses or aggregates its input
\* (missing file, invalid JSON, a top-level value that is not a list, a
\* malformed event) returns False and leaves the main file and the backup
\* as they were, absent if they were absent.
C14_FailedReadWritesNothing ==
    [][(/\ runs' = runs + 1
        /\ InputFails(history))
       => (/\ ~migRet'.ok
           /\ migRet'.writes = <<>>
           /\ history' = history
           /\ backup' = backup)]_vars

\* a run has failed on a list whose third event is malformed, after two
\* well-formed events, and there is no backup
C14_Witness ==
    /\ runs = 1
    /\ ~migRet.ok
    /\ history.state = "json"
    /\ "list" \in DOMAIN history.data
    /\ Len(history.data.list) = 3
    /\ IsDict(history.data.list[1])
    /\ IsDict(history.data.list[2])
    /\ ~IsDict(history.data.list[3])
    /\ backup.state = "missing"

(***************************************************************************)
(* Properties of two collections over one file (checked under SpecTwo)     *)
(***************************************************************************)
\* what the writer of the last call holds and what its call returned
LastMem == Mem(writer)
LastRet == IF writer = "A" THEN ret ELSE other.ret
LastCall == IF writer = "A" THEN call ELSE other.call

\* C15: with two collections over one file and no lock there is an
\* interleaving of two mutating calls that both report success after which
\* the file lacks the effect of one of them.  The mechanism is stated as an
\* invariant: after a call that saved, the file holds the order of the
\* collection that made the call and its playlists and nothing else, whatever
\* the other collection had written.  C15_LostUpdate is the interleaving.
C15_LastWriterOverwrites ==
    LastRet.saves = <<"ok">> =>
        /\ file.state = "json"
        /\ file.data.order = LastMem.order
        /\ \A i \in 1..Len(file.data.playlists) :
               /\ file.data.playlists[i].id \in DOMAIN LastMem.playlists
               /\ file.data.playlists[i]
                      = ToDict(LastMem.playlists[file.data.playlists[i].id])

\* A created a playlist and B then changed its own view; both calls
\* reported success and saved, and the file does not list A's playlist
C15_LostUpdate ==
    /\ writer = "B"
    /\ call.name = "create_playlist"
    /\ ret.ok
    /\ ret.saves = <<"ok">>
    /\ other.call.name \in {"create_playlist", "rename_playlist",
                            "add_song_to_playlist"}
    /\ other.ret.ok
    /\ other.ret.saves = <<"ok">>
    /\ ret.val[1].id \in DOMAIN playlists
    /\ file.state = "json"
    /\ ~InList(ret.val[1].id, file.data.order)
    /\ \A i \in 1..Len(file.data.playlists) :
           file.data.playlists[i].id # ret.val[1].id

\* the data file cannot be parsed, or one of its records is not a playlist
\* record (from_dict raises on it)
Unreadable(f) == f.state = "corrupt" \/ (f.state = "json" /\ ~WellFormed(f))

\* C16: after a load (the constructor's included) of a data file that cannot
\* be parsed or that holds a malformed record, no exception reached the
\* caller, the playlists map holds "default" only and order is <<"default">>:
\* nothing of the records read before the malformed one is kept.
C16_UnreadableFileResets ==
    (AfterLoad /\ Unreadable(call.data_file)) =>
        /\ ~ret.raised
        /\ DOMAIN playlists = {DefaultPlaylistId}
        /\ playlists[DefaultPlaylistId].songs = <<>>
        /\ order = <<DefaultPlaylistId>>

\* an explicit load read a file whose first record is a playlist and whose
\* second is not a record
C16_Witness ==
    /\ call.name = "load"
    /\ call.data_file.state = "json"
    /\ Len(RecordsOf(call.data_file)) = 2
    /\ IsDict(RecordsOf(call.data_file)[1])
    /\ RecordsOf(call.data_file)[1].id = "p1"
    /\ ~IsDict(RecordsOf(call.data_file)[2])
    /\ "p1" \notin DOMAIN playlists

\* the import file holds one playlist record that names its id
ValidImport(imp) ==
    /\ imp.state = "json"
    /\ IsDict(imp.data)
    /\ "list" \notin DOMAIN imp.data
    /\ "id" \in DOMAIN imp.data

\* the import file is missing, is not JSON or does not hold a record
BadImport(imp) ==
    \/ imp.state # "json"
    \/ ~IsDict(imp.data)
    \/ "list" \in DOMAIN imp.data

\* C18: import_playlist of a valid record returns the playlist, stores it in
\* the map under the record's id in place of any playlist held under that
\* id (the other playlists stay), appends the id to order and saves once;
\* import of a missing or malformed file returns None, leaves the map, the
\* order and the data file as they were and does not save.
C18_Import ==
    [][(call'.name = "import_playlist" /\ calls' = calls + 1) =>
         /\ ValidImport(call'.import_file) =>
               /\ ret'.ok
               /\ ~ret'.raised
               /\ Len(ret'.val) = 1
               /\ ret'.val[1].id = call'.import_file.data.id
               /\ ret'.val[1].name = call'.import_file.data.name
               /\ DOMAIN playlists'
                      = DOMAIN playlists \cup {call'.import_file.data.id}
               /\ playlists'[call'.import_file.data.id] = ret'.val[1]
               /\ \A k \in DOMAIN playlists \ {call'.import_file.data.id} :
                      playlists'[k] = playlists[k]
               /\ order' = Append(order, call'.import_file.data.id)
               /\ Len(ret'.saves) = 1
               /\ ret'.saves = <<"ok">> =>
                      (file'.state = "json" /\ file'.data.order = order')
         /\ BadImport(call'.import_file) =>
               /\ ~ret'.ok
               /\ ~ret'.raised
               /\ ret'.val = <<>>
               /\ playlists' = playlists
               /\ order' = order
               /\ file' = file
               /\ ret'.saves = <<>>]_vars

\* a record was imported over a playlist the collection held under the same
\* id: the map holds the imported one, order names the id once more
C18_Witness ==
    /\ call.name = "import_playlist"
    /\ call.import_file = JsonFile(RecP1)
    /\ ret.ok
    /\ ret.saves = <<"ok">>
    /\ calls = 2
    /\ playlists["p1"].songs = RecP1.songs
    /\ Count("p1", order) = 2
    /\ file.data.order = order

\* an import of a file that holds a list, not a record, returned None
C18_WitnessMalformed ==
    /\ call.name = "import_playlist"
    /\ call.import_file = JsonFile([list |-> <<RecP1>>])
    /\ ~ret.ok
    /\ ret.saves = <<>>

\* the entry is a stream entry: a dict whose type is youtube or stream
IsStreamEntry(item) ==
    IsDict(item) /\ Get(item, "type", NoneVal) \in {"youtube", "stream"}

\* C17: after any load or add_song every entry of songs whose type is
\* youtube or stream carries a non-empty thumbnail_url, and an entry of type
\* youtube whose URL has a video id carries the thumbnail URL of that id.
\* Violated: get_thumbnail_url returns "" unless the entry is a YouTube one
\* with a video id, so an entry of type stream with any other URL is stored
\* without a thumbnail_url.
C17_StreamEntriesHaveThumbnail ==
    \A i \in 1..Len(pl.songs) :
        IsStreamEntry(pl.songs[i]) =>
            /\ Truthy(Get(pl.songs[i], "thumbnail_url", NoneVal))
            /\ (pl.songs[i].type = "youtube"
                   /\ ExtractVideoId(Get(pl.songs[i], "url", "")) # "") =>
                  pl.songs[i].thumbnail_url
                      = "https://img.youtube.com/vi/"
                            \o ExtractVideoId(pl.songs[i].url)
                            \o "/maxresdefault.jpg"

\* C19: after delete_playlist(id) returned true the id is not a key of the
\* playlists map, is not an element of order, and get_all returns no
\* playlist of that id.
\* Violated: delete_playlist removes the first occurrence of the id from
\* order, and import_playlist and reorder_playlists can have put the id
\* into order more than once.
C19_DeletedEverywhere ==
    (call.name = "delete_playlist" /\ ret.ok) =>
        /\ call.playlist_id \notin DOMAIN playlists
        /\ ~InList(call.playlist_id, order)
        /\ \A i \in 1..Len(GetAll(playlists, order)) :
               GetAll(playlists, order)[i].id # call.playlist_id

\* the calls of the collection that take a playlist id
IdCalls ==
    { "delete_playlist", "rename_playlist", "add_song_to_playlist",
      "remove_song_from_playlist", "remove_song_at_index",
      "reorder_playlist_songs", "clear_playlist", "export_playlist" }

\* C20: a call that takes a playlist id, given an id that is not a key of
\* the playlists map, returns false or None without raising, leaves the map
\* and the order as they were and does not save (the data file is not
\* written).
C20_UnknownIdIsNoOp ==
    [][(/\ calls' = calls + 1
        /\ call'.name \in IdCalls
        /\ call'.playlist_id \notin DOMAIN playlists)
       => (/\ ~ret'.ok
           /\ ret'.val = <<>>
           /\ ~ret'.raised
           /\ playlists' = playlists
           /\ order' = order
           /\ ret'.saves = <<>>
           /\ file' = file)]_vars

\* a collection that holds two playlists and has been changed once was asked
\* to delete a playlist it does not hold
C20_Witness ==
    /\ call.name = "delete_playlist"
    /\ call.playlist_id \notin DOMAIN playlists
    /\ calls = 2
    /\ Cardinality(DOMAIN playlists) = 2
    /\ ~ret.ok
    /\ ret.saves = <<>>
    /\ file.state = "json"
    /\ file.data.order = order

\* the other calls were made with an id the collection does not hold
C20_WitnessExport ==
    /\ call.name = "export_playlist"
    /\ call.playlist_id \notin DOMAIN playlists
    /\ ~ret.ok
    /\ exportFile.state = "missing"

C20_WitnessReorderSongs ==
    /\ call.name = "reorder_playlist_songs"
    /\ call.playlist_id \notin DOMAIN playlists
    /\ ~ret.ok

\* C21: when the save of a mutating call fails with an I/O error, the call
\* returns false or None and does not raise.
\* Violated: save catches the error and prints it, and the caller returns
\* what it would have returned after a save that worked.
C21_FailedSaveReported ==
    (/\ call.name \in MutatingCalls
     /\ SaveFailed(ret))
    => (~ret.ok /\ ~ret.raised)

\* the song-level pass-throughs of the collection
PassThroughCalls ==
    { "add_song_to_playlist", "remove_song_from_playlist",
      "remove_song_at_index", "reorder_playlist_songs", "clear_playlist" }

\* C22: a song-level pass-through on a playlist the collection holds saves
\* the collection if and only if the call changed the songs of that
\* playlist; in particular a removal by index that removed an entry is
\* followed by a save, whatever the entry.
\* Violated: remove_song_at_index saves under `if song_path:`, the
\* truthiness of the entry removed, so the removal of "" is not saved.
C22_SaveIffSongsChanged ==
    [][(/\ calls' = calls + 1
        /\ call'.name \in PassThroughCalls
        /\ call'.playlist_id \in DOMAIN playlists)
       => (/\ ~ret'.raised =>
                 (Len(ret'.saves) > 0
                    <=> playlists'[call'.playlist_id].songs
                            # playlists[call'.playlist_id].songs)
           /\ (/\ call'.name = "remove_song_at_index"
               /\ Len(playlists'[call'.playlist_id].songs)
                      < Len(playlists[call'.playlist_id].songs))
              => Len(ret'.saves) = 1)]_vars

\* C22, the part about removal by index alone
C22_RemovalByIndexSaved ==
    [][(/\ calls' = calls + 1
        /\ call'.name = "remove_song_at_index"
        /\ call'.playlist_id \in DOMAIN playlists
        /\ Len(playlists'[call'.playlist_id].songs)
               < Len(playlists[call'.playlist_id].songs))
       => Len(ret'.saves) = 1]_vars

\* the urls of the events of `data` that are not empty
InputUrls(data) ==
    {Get(data[i], "url", "") : i \in 1..Len(data)} \ {""}

\* C23: the migrated output holds exactly one record for each distinct
\* non-empty url of the input events and no record for an event whose url
\* is empty or missing.
C23_OneRecordPerUrl ==
    [][(runs' = runs + 1 /\ migRet'.ok) =>
         /\ {Get(history'.data.list[i], "url", "") :
                 i \in 1..Len(history'.data.list)}
               = InputUrls(history.data.list)
         /\ \A i, j \in 1..Len(history'.data.list) :
                Get(history'.data.list[i], "url", "")
                    = Get(history'.data.list[j], "url", "") => i = j]_vars

\* three events were migrated, two of one url and one without a url; the
\* output holds one record
C23_Witness ==
    /\ runs = 1
    /\ migRet.ok
    /\ Len(backup.data.list) = 3
    /\ InputUrls(backup.data.list) = {"u2"}
    /\ \E i \in 1..3 : "url" \notin DOMAIN backup.data.list[i]
    /\ Cardinality(EventsOf(backup.data.list, "u2")) = 2
    /\ Len(history.data.list) = 1
    /\ history.data.list[1].url = "u2"

\* two urls were migrated, one of them from an event without a timestamp
C23_WitnessTwoUrls ==
    /\ runs = 1
    /\ migRet.ok
    /\ InputUrls(backup.data.list) = {"u1", "u2"}
    /\ StampsOf(backup.data.list, "u1") = {}
    /\ Len(history.data.list) = 2

\* "default" is neither a key of the playlists map nor an element of order
DefaultAbsent(P, O) ==
    DefaultPlaylistId \notin DOMAIN P /\ ~InList(DefaultPlaylistId, O)

\* C24: after delete_playlist("default") returned true, "default" is absent
\* from the playlists map and from order, stays absent through every later
\* call other than load, and the next load creates it again in both and
\* saves.
\* Violated: delete_playlist removes one occurrence of the id from order
\* (C19), so "default" can stay in order; and import_playlist of a record
\* whose id is "default" puts it back without a load.
C24_DefaultDeletedUntilLoad ==
    [][calls' = calls + 1 =>
         /\ (/\ call'.name = "delete_playlist"
             /\ call'.playlist_id = DefaultPlaylistId
             /\ ret'.ok)
            => DefaultAbsent(playlists', order')
         /\ (call'.name # "load" /\ DefaultAbsent(playlists, order))
            => DefaultAbsent(playlists', order')
         /\ (call'.name = "load" /\ DefaultAbsent(playlists, order))
            => (/\ DefaultPlaylistId \in DOMAIN playlists'
                /\ InList(DefaultPlaylistId, order')
                /\ Len(ret'.saves) > 0)]_vars

\* C24, first part alone: the state right after the delete
C24_DefaultAbsentAfterDelete ==
    (/\ call.name = "delete_playlist"
     /\ call.playlist_id = DefaultPlaylistId
     /\ ret.ok)
    => DefaultAbsent(playlists, order)

\* C24, second part alone: no call other than load brings "default" back
C24_AbsentUntilLoad ==
    [][(/\ calls' = calls + 1
        /\ call'.name # "load"
        /\ DefaultAbsent(playlists, order))
       => DefaultAbsent(playlists', order')]_vars

\* C24, third part alone: the next load creates "default" again and saves
C24_LoadRecreatesDefault ==
    [][(/\ calls' = calls + 1
        /\ call'.name = "load"
        /\ DefaultAbsent(playlists, order))
       => (/\ DefaultPlaylistId \in DOMAIN playlists'
           /\ InList(DefaultPlaylistId, order')
           /\ Len(ret'.saves) > 0)]_vars

(***************************************************************************)
(* Further properties of one playlist (checked under SpecPlaylist)         *)
(***************************************************************************)
\* the index is one of a position of lst
InBounds(index, lst) ==
    index # NoneIndex /\ 0 <= index /\ index < Len(lst)

\* C25: reorder(from, to) with both indices within bounds returns true,
\* keeps the multiset of entries, places the moved entry at index to and
\* keeps the relative order of all other entries; with an index out of
\* bounds or None it returns false and leaves songs and updated_at as they
\* were.
C25_Reorder ==
    [][plCall'.name = "reorder" =>
         IF /\ InBounds(plCall'.from_index, pl.songs)
            /\ InBounds(plCall'.to_index, pl.songs)
         THEN /\ plRet'.ok
              /\ ~plRet'.raised
              /\ IsPermutation(pl'.songs, pl.songs)
              /\ pl'.songs[plCall'.to_index + 1]
                     = pl.songs[plCall'.from_index + 1]
              /\ PopAt(pl'.songs, plCall'.to_index)
                     = PopAt(pl.songs, plCall'.from_index)
         ELSE /\ ~plRet'.ok
              /\ ~plRet'.raised
              /\ pl'.songs = pl.songs
              /\ pl'.updated_at = pl.updated_at]_vars

\* the first of three distinct entries was moved to the end
C25_Witness ==
    /\ plCall.name = "reorder"
    /\ plCall.from_index = 0
    /\ plCall.to_index = 2
    /\ plRet.ok
    /\ Len(pl.songs) = 3
    /\ Cardinality(ToSet(pl.songs)) = 3

\* C26: round trip: Playlist.from_dict(p.to_dict()), whenever it is made,
\* has the id, the name and the songs (same entries, same order) of p.
C26_RoundTrip ==
    \A t \in 1..MaxTime :
        /\ FromDict(ToDict(pl), t).id = pl.id
        /\ FromDict(ToDict(pl), t).name = pl.name
        /\ FromDict(ToDict(pl), t).songs = pl.songs

\* the playlist holds a YouTube entry with its thumbnail, a stream entry
\* for which no thumbnail can be derived and a legacy path
C26_Witness ==
    /\ plCall.name = "add_song"
    /\ Len(pl.songs) = 3
    /\ \E i \in 1..3 : /\ IsStreamEntry(pl.songs[i])
                        /\ Truthy(Get(pl.songs[i], "thumbnail_url", NoneVal))
    /\ \E i \in 1..3 : /\ IsStreamEntry(pl.songs[i])
                        /\ ~Truthy(Get(pl.songs[i], "thumbnail_url", NoneVal))
    /\ \E i \in 1..3 : ~IsDict(pl.songs[i])
    /\ now = 2
    /\ FromDict(ToDict(pl), 2).songs = pl.songs
    /\ FromDict(ToDict(pl), 2).id = "1000"

(***************************************************************************)
(* Further properties of the collection (checked under Spec)               *)
(***************************************************************************)
\* the data file holds a bare array of playlist records that name their ids
BareArray(f) ==
    /\ f.state = "json"
    /\ "list" \in DOMAIN f.data
    /\ \A i \in 1..Len(f.data.list) :
           IsDict(f.data.list[i]) /\ "id" \in DOMAIN f.data.list[i]

\* the elements of lst, each once, in the order of their first occurrence
RECURSIVE EachOnce(_)
EachOnce(lst) ==
    IF Len(lst) = 0 THEN <<>>
    ELSE LET front == EachOnce(SubSeq(lst, 1, Len(lst) - 1))
         IN  IF InList(lst[Len(lst)], front) THEN front
             ELSE Append(front, lst[Len(lst)])

\* the ids of the records of a bare array, in file order
ArrayIds(f) == EachOnce([i \in 1..Len(f.data.list) |-> f.data.list[i].id])

\* C27: a load of a data file whose top-level value is a bare array of
\* playlist records succeeds, and order then holds exactly the loaded ids,
\* each once, in file order, with "default" at the front when no loaded
\* record has that id.
\* Violated: load tests `"default" not in self._playlists`, and an explicit
\* load keeps the playlists already in memory (C7), so a "default" held in
\* memory and absent from the array is not put into order.
C27_BareArrayOrder ==
    (AfterLoad /\ BareArray(call.data_file)) =>
        /\ ret.ok
        /\ ~ret.raised
        /\ order = IF InList(DefaultPlaylistId, ArrayIds(call.data_file))
                   THEN ArrayIds(call.data_file)
                   ELSE <<DefaultPlaylistId>> \o ArrayIds(call.data_file)

\* C27 for the load the constructor makes, which starts from an empty
\* collection
C27_BareArrayOrderAtConstruction ==
    (call.name = "__init__" /\ BareArray(call.data_file)) =>
        order = IF InList(DefaultPlaylistId, ArrayIds(call.data_file))
                THEN ArrayIds(call.data_file)
                ELSE <<DefaultPlaylistId>> \o ArrayIds(call.data_file)

\* C28: when add_song succeeds, the new entry is at index 0 of songs and the
\* entries present before the call follow it in their previous order.
C28_AddSongPrepends ==
    [][(plCall'.name = "add_song" /\ plRet'.ok) =>
         /\ Len(pl'.songs) = Len(pl.songs) + 1
         /\ EntryUrl(pl'.songs[1]) = EntryUrl(plCall'.song)
         /\ IsDict(pl'.songs[1]) = IsDict(plCall'.song)
         /\ Tail(pl'.songs) = pl.songs]_vars

\* a third entry was added in front of two others
C28_Witness ==
    /\ plCall.name = "add_song"
    /\ plRet.ok
    /\ Len(pl.songs) = 3
    /\ EntryUrl(pl.songs[1]) = EntryUrl(plCall.song)
    /\ EntryUrl(pl.songs[2]) # EntryUrl(pl.songs[1])
    /\ EntryUrl(pl.songs[3]) # EntryUrl(pl.songs[1])

\* C29: reorder_songs never raises: on a playlist that holds structured
\* song records, a new_order that is a permutation of songs returns true and
\* any other new_order returns false with songs unchanged.
\* Violated: set(self.songs) raises TypeError as soon as songs holds a dict,
\* which is not hashable, whatever new_order is.
C29_ReorderSongsNeverRaises ==
    [][(plCall'.name = "reorder_songs" /\ Unhashable(pl.songs)) =>
         /\ ~plRet'.raised
         /\ IsPermutation(plCall'.new_order, pl.songs) => plRet'.ok
         /\ ~IsPermutation(plCall'.new_order, pl.songs) =>
                (~plRet'.ok /\ pl'.songs = pl.songs)]_vars

\* C29 for the pass-through of the collection, which has no try/except of
\* its own (checked under Spec)
C29_ReorderPlaylistSongsNeverRaises ==
    (call.name = "reorder_playlist_songs") => ~ret.raised

\* C30: in every state of the collection reachable by load, create_playlist,
\* delete_playlist, reorder_playlists and import_playlist (the other calls
\* never touch order), order holds no id more than once, so get_all and the
\* saved file list each playlist at most once.
\* Violated: import_playlist appends the id of the record to order whether
\* or not order holds it, and reorder_playlists accepts a list that repeats
\* an id (C4).
C30_OrderHasNoDuplicates ==
    /\ \A i, j \in 1..Len(order) : order[i] = order[j] => i = j
    /\ \A i, j \in 1..Len(GetAll(playlists, order)) :
           GetAll(playlists, order)[i].id = GetAll(playlists, order)[j].id
               => i = j

\* C30 without reorder_playlists: the state after a construction and one
\* import_playlist.  Import alone repeats an id.
C30_NoDuplicatesAfterImport ==
    (call.name = "import_playlist" /\ calls = 1) =>
        \A i, j \in 1..Len(order) : order[i] = order[j] => i = j

\* current_playing_index of p is -1 or a position of p.songs
CursorValid(p) ==
    \/ p.current_playing_index = -1
    \/ (0 <= p.current_playing_index
           /\ p.current_playing_index < Len(p.songs))

\* C31: in every state of a playlist reached by add_song, remove,
\* remove_song, remove_song_at_index, reorder, reorder_songs and clear,
\* current_playing_index is -1 or a valid index into songs: a call of one of
\* them on a playlist whose cursor is valid leaves it valid.  Checked on the
\* playlists of the collection, which from_dict constructs with the cursor
\* of their record and on which the pass-throughs call these methods.
\* Violated: no method of Playlist assigns current_playing_index after
\* __init__, so a removal or clear that shortens songs leaves the cursor
\* past the end.
C31_CursorStaysValid ==
    [][(/\ calls' = calls + 1
        /\ call'.name \in PassThroughCalls
        /\ call'.playlist_id \in DOMAIN playlists
        /\ CursorValid(playlists[call'.playlist_id]))
       => CursorValid(playlists'[call'.playlist_id])]_vars

\* C31 as a state invariant of the collection: every playlist it holds has a
\* valid cursor (every record of the data files has one)
C31_CursorValidEverywhere ==
    \A k \in DOMAIN playlists : CursorValid(playlists[k])

\* C31 for a playlist constructed without a cursor, whose cursor stays -1
\* (holds under SpecPlaylist)
C31_CursorOfNewPlaylist == pl.current_playing_index = -1

====
